---- MODULE Spec2Model ----
(***************************************************************************)
(* Model of the image export pipeline of fxn                              *)
(* (src/features/images/images.rs): export_images drives one export_image *)
(* call per (image name, scale) pair and renders its progress and errors. *)
(***************************************************************************)
EXTENDS Integers, Sequences, FiniteSets, TLC

\* ------------------------------------------------------------------ bounds
MaxNames == 2
MaxFailures == 1

\* ------------------------------------------------------------- input sets
Names == {"ic_close", "Ic Close", "logo"}
ScaleLabels == {"mdpi", "xhdpi"}
Formats == {"Png", "Webp", "Svg"}
FetchErrors == {"FrameNotFound", "ConfigError"}

ScaleFactor(label) ==
  IF label = "mdpi" THEN 1 ELSE 2

NodeId(name) ==
  CASE name = "ic_close" -> "1:1"
    [] name = "Ic Close" -> "1:2"
    [] OTHER -> "1:3"

\* All lists of requested names the command line can carry.
NameLists == UNION {[1..n -> Names] : n \in 0..MaxNames}

\* A scale map is a HashMap<String, f32>: distinct labels, iterated in the
\* order of its table (here not the alphabetical one), which stays the same
\* while the map is not modified.
ScaleMaps ==
  { <<>>,
    <<(<<"mdpi", ScaleFactor("mdpi")>>)>>,
    <<(<<"xhdpi", ScaleFactor("xhdpi")>>), (<<"mdpi", ScaleFactor("mdpi")>>)>> }

NameIndexes == {[n \in D |-> NodeId(n)] : D \in SUBSET Names}

\* ------------------------------------------------------- external helpers
to_res_name(name) == IF name = "Ic Close" THEN "ic_close" ELSE name

extension(format) ==
  CASE format = "Png" -> "png"
    [] format = "Webp" -> "webp"
    [] OTHER -> "svg"

is_svg(format) == format = "Svg"

Similar(a, b) == a # b /\ to_res_name(a) = to_res_name(b)

\* Candidates in a fixed ranking order.
RECURSIVE SetToSeq(_)
SetToSeq(S) ==
  IF S = {} THEN <<>>
  ELSE LET x == CHOOSE y \in S : TRUE IN <<x>> \o SetToSeq(S \ {x})

generate_name_suggections(name, available) ==
  LET c == {a \in available : Similar(name, a)}
  IN  IF c = {} THEN [some |-> FALSE, list |-> <<>>]
      ELSE [some |-> TRUE, list |-> SetToSeq(c)]

\* ------------------------------------------------------------------ state
VARIABLES pc, image_names, app_config, names_to_ids, image_scales,
          i, j, image_info, export_result, events, dirs, files, history,
          calls, runs, prev_files

vars == <<pc, image_names, app_config, names_to_ids, image_scales,
          i, j, image_info, export_result, events, dirs, files, history,
          calls, runs, prev_files>>

NoConfig == [loaded |-> FALSE]
NoInfo == [name |-> "", scale_name |-> "", scale_value |-> 0,
           format |-> "", res_name |-> ""]
NoResult == [kind |-> "None"]
OkResult == [kind |-> "Ok"]
NoIndex == [n \in {} |-> ""]

\* ----------------------------------------------------------------- views
View(v, a, b) == [view |-> v, a |-> a, b |-> b]
NewLine == View("NewLine", "", "")
ErrorViews == {"Error", "ErrorWithSuggestions"}
StageViews == {"FetchingImage", "DownloadingImage", "ConvertingToWebp",
               "ConvertedToWebp", "ImageExported"}

\* AppError::to_string
ErrText(e) ==
  IF e.kind = "CannotMoveToDrawableDir" THEN <<e.kind, e.name>> ELSE <<e.kind>>

MissingText(name, frame) == <<"ImageMissingInFrame", name, frame>>

TransientKinds == {"GetImageDownloadUrl", "GetImage", "ImageToWebp",
                   "CannotCreateDrawableDir", "CannotMoveToDrawableDir"}

\* --------------------------------------------------------- pure functions
ImageScales_IgnoreSvg(cfg) == cfg.scales

ImageScales_Inverted(cfg) ==
  IF ~is_svg(cfg.format) THEN <<(<<"", 1>>)>> ELSE cfg.scales

\* lines 37-44: the scales the run iterates over.
ImageScales(cfg) ==
  IF is_svg(cfg.format) THEN <<(<<"", 1>>)>> ELSE cfg.scales

image_drawable_dir_AlwaysScaled(res_dir, info) ==
  <<res_dir, "/", "drawable", "-", info.scale_name>>

image_drawable_dir_NeverScaled(res_dir, info) ==
  <<res_dir, "/", "drawable">>

\* lines 203-209
image_drawable_dir(res_dir, info) ==
  IF is_svg(info.format)
  THEN <<res_dir, "/", "drawable">>
  ELSE <<res_dir, "/", "drawable", "-", info.scale_name>>

\* lines 133-137
full_final_image_path(dir, info) ==
  dir \o <<"/", info.res_name, ".", extension(info.format)>>

\* lines 178-198: the views rendered.
CheckMissingViews(result) ==
  IF result.kind = "ImageMissingInFrame"
  THEN IF result.suggestions.some
       THEN <<View("ErrorWithSuggestions",
                   MissingText(result.name, result.frame),
                   result.suggestions.list), NewLine>>
       ELSE <<View("Error", MissingText(result.name, result.frame), <<>>),
              NewLine>>
  ELSE <<>>

check_image_missing_error_NeverStop(result) == FALSE

check_image_missing_error_AnyError(result) == result.kind # "Ok"

\* lines 178-198: the value returned.
check_image_missing_error(result) == result.kind = "ImageMissingInFrame"

MatchViews_AnyError(result) ==
  IF result.kind # "Ok" THEN <<View("Error", ErrText(result), <<>>)>> ELSE <<>>

\* lines 59-63: the match on the export result.
MatchViews(result) ==
  IF result.kind \notin {"Ok", "ImageMissingInFrame"}
  THEN <<View("Error", ErrText(result), <<>>)>>
  ELSE <<>>

AfterTask_Abort(brk) ==
  IF brk THEN <<Len(image_names) + 1, 1>> ELSE <<i, j + 1>>

\* lines 46-47, 67: the loop position after a task.
AfterTask(brk) ==
  IF brk THEN <<i + 1, 1>> ELSE <<i, j + 1>>

\* ------------------------------------------------------------ export_image
\* The stage of export_image at which each error is returned by `?`.
Stage(kind) ==
  CASE kind = "ImageMissingInFrame" -> 0
    [] kind = "GetImageDownloadUrl" -> 1
    [] kind = "GetImage" -> 2
    [] kind = "ImageToWebp" -> 3
    [] kind = "CannotCreateDrawableDir" -> 4
    [] kind = "CannotMoveToDrawableDir" -> 5
    [] OTHER -> 6

\* lines 149-170: the views rendered by convert_to_webp_if_necessary when
\* export_image returns at stage st (3: image_to_webp failed).
ConvertViews_ConvertedBeforeResult(info, st) ==
  IF info.format = "Webp" /\ st >= 3
  THEN <<View("ConvertingToWebp", info.name, info.scale_name),
         View("ConvertedToWebp", info.name, info.scale_name)>>
  ELSE <<>>

ConvertViews(info, st) ==
  IF info.format = "Webp"
  THEN (IF st >= 3
        THEN <<View("ConvertingToWebp", info.name, info.scale_name)>> ELSE <<>>)
       \o (IF st > 3
           THEN <<View("ConvertedToWebp", info.name, info.scale_name)>> ELSE <<>>)
  ELSE <<>>

ConvertedFile_KeepsDownloaded(info, file, quality) == file

\* lines 149-170: the file convert_to_webp_if_necessary hands on.
ConvertedFile(info, file, quality) ==
  IF info.format = "Webp" THEN file \o <<"webp", quality>> ELSE file

\* lines 113-118: the temporary file api.get_image downloads to.
TemporaryFile(info) ==
  <<"tmp", info.res_name, info.scale_name, extension(info.format)>>

ExportViews_ExportedBeforeMove(info, st) ==
  (IF st >= 1
   THEN <<View("FetchingImage", info.name, info.scale_name)>> ELSE <<>>)
  \o (IF st >= 2
      THEN <<View("DownloadingImage", info.name, info.scale_name)>> ELSE <<>>)
  \o ConvertViews(info, st)
  \o (IF st >= 5
      THEN <<View("ImageExported", info.name, info.scale_name)>> ELSE <<>>)

ExportViews_DownloadOfEarlierTask(info, st) ==
  (IF st >= 1
   THEN <<View("FetchingImage", info.name, info.scale_name)>> ELSE <<>>)
  \o (IF st >= 2
      THEN <<View("DownloadingImage",
                  (IF image_info = NoInfo THEN info ELSE image_info).name,
                  (IF image_info = NoInfo THEN info ELSE image_info).scale_name)>>
      ELSE <<>>)
  \o ConvertViews(info, st)
  \o (IF st = 6
      THEN <<View("ImageExported", info.name, info.scale_name)>> ELSE <<>>)

\* lines 99-145: the views export_image renders when it returns at stage st.
ExportViews(info, st) ==
  (IF st >= 1
   THEN <<View("FetchingImage", info.name, info.scale_name)>> ELSE <<>>)
  \o (IF st >= 2
      THEN <<View("DownloadingImage", info.name, info.scale_name)>> ELSE <<>>)
  \o ConvertViews(info, st)
  \o (IF st = 6
      THEN <<View("ImageExported", info.name, info.scale_name)>> ELSE <<>>)

\* A call of a collaborator by the task at position k of the run; ok is
\* whether it returned Ok.
Call(k, op, args, ok) == [task |-> k, op |-> op, args |-> args, ok |-> ok]

ExportCalls_RetryDownloadUrl(info, nid, st, k) ==
  (IF st >= 1
   THEN <<Call(k, "get_image_download_url",
               <<nid, info.scale_value, info.format>>, FALSE),
          Call(k, "get_image_download_url",
               <<nid, info.scale_value, info.format>>, st > 1)>>
   ELSE <<>>)
  \o (IF st >= 2
      THEN <<Call(k, "get_image",
                  <<info.res_name, info.scale_name, info.format>>, st > 2)>>
      ELSE <<>>)
  \o (IF st >= 3 /\ info.format = "Webp"
      THEN <<Call(k, "image_to_webp",
                  <<TemporaryFile(info), app_config.quality>>, st > 3)>>
      ELSE <<>>)
  \o (IF st >= 4
      THEN <<Call(k, "create_dir",
                  <<image_drawable_dir(app_config.res_dir, info)>>, st > 4)>>
      ELSE <<>>)
  \o (IF st >= 5
      THEN <<Call(k, "move_file",
                  <<ConvertedFile(info, TemporaryFile(info), app_config.quality),
                    full_final_image_path(
                      image_drawable_dir(app_config.res_dir, info), info)>>,
                  st > 5)>>
      ELSE <<>>)

\* lines 104-139: the collaborators export_image calls, in order, when it
\* returns at stage st; the call of stage st is the one that failed.
ExportCalls(info, nid, st, k) ==
  (IF st >= 1
   THEN <<Call(k, "get_image_download_url",
               <<nid, info.scale_value, info.format>>, st > 1)>>
   ELSE <<>>)
  \o (IF st >= 2
      THEN <<Call(k, "get_image",
                  <<info.res_name, info.scale_name, info.format>>, st > 2)>>
      ELSE <<>>)
  \o (IF st >= 3 /\ info.format = "Webp"
      THEN <<Call(k, "image_to_webp",
                  <<TemporaryFile(info), app_config.quality>>, st > 3)>>
      ELSE <<>>)
  \o (IF st >= 4
      THEN <<Call(k, "create_dir",
                  <<image_drawable_dir(app_config.res_dir, info)>>, st > 4)>>
      ELSE <<>>)
  \o (IF st >= 5
      THEN <<Call(k, "move_file",
                  <<ConvertedFile(info, TemporaryFile(info), app_config.quality),
                    full_final_image_path(
                      image_drawable_dir(app_config.res_dir, info), info)>>,
                  st > 5)>>
      ELSE <<>>)

\* fileutils::create_dir: creates the directory if absent.
create_dir(ds, dir) == ds \cup {dir}

move_file_KeepExisting(fs, file, path, run) ==
  IF \E f \in fs : f.path = path THEN fs
  ELSE fs \cup {[path |-> path, content |-> file, run |-> run]}

\* fileutils::move_file: moves the file to path, replacing what is there.
move_file(fs, file, path, run) ==
  {f \in fs : f.path # path}
    \cup {[path |-> path, content |-> file, run |-> run]}

DirsAfter_CreatedBeforeLookup(ds, info, st) ==
  create_dir(ds, image_drawable_dir(app_config.res_dir, info))

\* lines 124-130: the directories after export_image returned at stage st.
DirsAfter(ds, info, st) ==
  IF st > 4 THEN create_dir(ds, image_drawable_dir(app_config.res_dir, info))
  ELSE ds

FilesAfter_CleanupOnError(fs, info, st, run) ==
  IF st > 5
  THEN move_file(fs, ConvertedFile(info, TemporaryFile(info), app_config.quality),
                 full_final_image_path(
                   image_drawable_dir(app_config.res_dir, info), info), run)
  ELSE IF st >= 1
       THEN {f \in fs : f.path # full_final_image_path(
                                    image_drawable_dir(app_config.res_dir, info), info)}
       ELSE fs

\* lines 132-139: the files after export_image returned at stage st.
FilesAfter(fs, info, st, run) ==
  IF st > 5
  THEN move_file(fs, ConvertedFile(info, TemporaryFile(info), app_config.quality),
                 full_final_image_path(
                   image_drawable_dir(app_config.res_dir, info), info), run)
  ELSE fs

IndexAfter_CachesSuggestion(idx, r) ==
  IF r.kind = "ImageMissingInFrame" /\ r.suggestions.some
  THEN [n \in DOMAIN idx \cup {r.name} |->
          IF n = r.name THEN idx[r.suggestions.list[1]] ELSE idx[n]]
  ELSE idx

\* lines 81, 88-97: export_image borrows names_to_ids immutably (get, iter).
IndexAfter(idx, r) == idx

\* lines 87-97: the error of a name that is not in the index.
MissingError(info) ==
  [kind |-> "ImageMissingInFrame", name |-> info.name,
   frame |-> app_config.frame,
   suggestions |-> generate_name_suggections(info.name, DOMAIN names_to_ids)]

NumFailures ==
  Cardinality({k \in 1..Len(history) : history[k].outcome \in TransientKinds})

\* The results export_image can return for this task: the lookup decides
\* between a miss and the rest; every fallible call may fail.
Results(info) ==
  IF info.name \notin DOMAIN names_to_ids
  THEN {MissingError(info)}
  ELSE {OkResult} \cup
       (IF runs = 0 /\ NumFailures < MaxFailures
        THEN {[kind |-> e, name |-> info.name] :
                e \in {t \in TransientKinds :
                         t = "ImageToWebp" => info.format = "Webp"}}
        ELSE {})

\* ---------------------------------------------------------------- actions
Init ==
  /\ pc = "fetch"
  /\ image_names \in NameLists
  /\ app_config = NoConfig
  /\ names_to_ids = NoIndex
  /\ image_scales = <<>>
  /\ i = 0
  /\ j = 0
  /\ image_info = NoInfo
  /\ export_result = NoResult
  /\ events = <<>>
  /\ dirs = {}
  /\ files = {}
  /\ history = <<>>
  /\ calls = <<>>
  /\ runs = 0
  /\ prev_files = {}

\* lines 28-44, fetch succeeded
FetchOk ==
  /\ pc = "fetch"
  /\ \E f \in Formats, s \in ScaleMaps, idx \in NameIndexes :
       /\ app_config' = [loaded |-> TRUE, format |-> f, scales |-> s,
                         frame |-> "Assets", res_dir |-> "res", quality |-> 85]
       /\ names_to_ids' = idx
  /\ image_scales' = ImageScales(app_config')
  /\ i' = 1
  /\ j' = 1
  /\ pc' = "loop"
  /\ UNCHANGED <<image_names, image_info, export_result, events, dirs, files,
                 history, calls, runs, prev_files>>

FetchErr_NoReturn ==
  /\ pc = "fetch"
  /\ \E e \in FetchErrors : events' = Append(events, View("Error", <<e>>, <<>>))
  /\ pc' = "loop"
  /\ i' = 1
  /\ j' = 1
  /\ UNCHANGED <<image_names, app_config, names_to_ids, image_scales,
                 image_info, export_result, dirs, files, history, calls, runs,
                 prev_files>>

\* lines 28-33, fetch failed
FetchErr ==
  /\ pc = "fetch"
  /\ \E e \in FetchErrors : events' = Append(events, View("Error", <<e>>, <<>>))
  /\ pc' = "returned"
  /\ UNCHANGED <<image_names, app_config, names_to_ids, image_scales, i, j,
                 image_info, export_result, dirs, files, history, calls, runs,
                 prev_files>>

\* lines 46-47: the inner loop is exhausted, take the next name
NextName ==
  /\ pc = "loop"
  /\ i <= Len(image_names)
  /\ j > Len(image_scales)
  /\ i' = i + 1
  /\ j' = 1
  /\ UNCHANGED <<pc, image_names, app_config, names_to_ids, image_scales,
                 image_info, export_result, events, dirs, files, history,
                 calls, runs, prev_files>>

\* lines 47-71, 77-147: one iteration of the inner loop: build image_info,
\* run export_image on it, render its result, break or go on
ExportTask ==
  /\ pc = "loop"
  /\ i <= Len(image_names)
  /\ j <= Len(image_scales)
  /\ LET info == [name |-> image_names[i],
                  scale_name |-> image_scales[j][1],
                  scale_value |-> image_scales[j][2],
                  format |-> app_config.format,
                  res_name |-> to_res_name(image_names[i])]
         nid == IF info.name \in DOMAIN names_to_ids
                THEN names_to_ids[info.name] ELSE ""
     IN  /\ image_info' = info
         /\ \E r \in Results(info) :
              LET brk == check_image_missing_error(r)
                  nxt == AfterTask(brk)
                  st == Stage(r.kind)
              IN  /\ export_result' = r
                  /\ events' = events \o ExportViews(info, st)
                                      \o MatchViews(r)
                                      \o CheckMissingViews(r)
                                      \o (IF brk THEN <<>> ELSE <<NewLine>>)
                  /\ calls' = calls \o ExportCalls(info, nid, st, Len(history) + 1)
                  /\ dirs' = DirsAfter(dirs, info, st)
                  /\ files' = FilesAfter(files, info, st, runs + 1)
                  /\ names_to_ids' = IndexAfter(names_to_ids, r)
                  /\ history' = Append(history,
                       [i |-> i, j |-> j, info |-> info, outcome |-> r.kind,
                        from |-> Len(events), to |-> Len(events')])
                  /\ i' = nxt[1]
                  /\ j' = nxt[2]
  /\ UNCHANGED <<pc, image_names, app_config, image_scales, runs, prev_files>>

Done_RenderedTwice ==
  /\ pc = "loop"
  /\ i > Len(image_names)
  /\ events' = events \o <<View("Done", "", ""), View("Done", "", "")>>
  /\ pc' = "returned"
  /\ UNCHANGED <<image_names, app_config, names_to_ids, image_scales, i, j,
                 image_info, export_result, dirs, files, history, calls, runs,
                 prev_files>>

\* line 74
Done ==
  /\ pc = "loop"
  /\ i > Len(image_names)
  /\ events' = Append(events, View("Done", "", ""))
  /\ pc' = "returned"
  /\ UNCHANGED <<image_names, app_config, names_to_ids, image_scales, i, j,
                 image_info, export_result, dirs, files, history, calls, runs,
                 prev_files>>

\* lines 24-44: the command is invoked again with the same names, the same
\* configuration and the same document, after a run in which no call failed;
\* the output tree is what the earlier run left.
Rerun ==
  /\ pc = "returned"
  /\ app_config.loaded
  /\ runs = 0
  /\ NumFailures = 0
  /\ runs' = 1
  /\ prev_files' = files
  /\ image_scales' = ImageScales(app_config)
  /\ i' = 1
  /\ j' = 1
  /\ image_info' = NoInfo
  /\ export_result' = NoResult
  /\ events' = <<>>
  /\ history' = <<>>
  /\ calls' = <<>>
  /\ pc' = "loop"
  /\ UNCHANGED <<image_names, app_config, names_to_ids, dirs, files>>

Next ==
  \/ FetchOk
  \/ FetchErr
  \/ NextName
  \/ ExportTask
  \/ Done
  \/ Rerun

Spec == Init /\ [][Next]_vars

\* lines 24-75: export_images is sequential code that runs on to its return;
\* nothing obliges anyone to invoke the command again.
Step == FetchOk \/ FetchErr \/ NextName \/ ExportTask \/ Done

FairSpec == Spec /\ WF_vars(Step)

TypeOK ==
  /\ pc \in {"fetch", "loop", "returned"}
  /\ Len(image_names) <= MaxNames

\* ------------------------------------------------------ derived notions
Loaded == app_config.loaded
Missing(name) == name \notin DOMAIN names_to_ids
Tasks == 1..Len(history)
\* What export_image returned for task k.
Outcome(k) == history[k].outcome
Succeeded(k) == Outcome(k) = "Ok"
IsMissing(k) == Outcome(k) = "ImageMissingInFrame"
IsTransient(k) == Outcome(k) \in TransientKinds

\* The events rendered for task k so far.
TaskEvents(k) == SubSeq(events, history[k].from + 1, history[k].to)
StageEvents(k) == SelectSeq(TaskEvents(k), LAMBDA e : e.view \in StageViews)
ErrorEvents(k) == SelectSeq(TaskEvents(k), LAMBDA e : e.view \in ErrorViews)

\* The destination path export_image computes for task k (lines 124-137).
ExportPath(k) ==
  full_final_image_path(
    image_drawable_dir(app_config.res_dir, history[k].info), history[k].info)

\* {res_dir}/drawable for SVG, {res_dir}/drawable-{scale_name} otherwise.
ExpectedDir(info) ==
  IF info.format = "Svg" THEN <<app_config.res_dir, "/", "drawable">>
  ELSE <<app_config.res_dir, "/", "drawable", "-", info.scale_name>>

\* {dir}/{res_name}.{extension}
ExpectedPath(info) ==
  ExpectedDir(info) \o <<"/", info.res_name, ".", extension(info.format)>>

\* ----------------------------------------------------------------- claims

\* C1: a name that is missing from the index gets exactly one task per
\* occurrence in the list, at the first planned scale, whose outcome is
\* MissingAsset; no stage event (FetchingImage, DownloadingImage,
\* ConvertingToWebp, ConvertedToWebp, ImageExported) is ever rendered for it.
C1_MissingSkipsRemainingScales ==
  \A k \in Tasks :
    Missing(history[k].info.name) =>
      /\ history[k].j = 1
      /\ Outcome(k) = "ImageMissingInFrame"
      /\ \A l \in Tasks : l # k => history[l].i # history[k].i
      /\ \A e \in 1..Len(events) :
           events[e].view \in StageViews => events[e].a # history[k].info.name

C1_Witness ==
  /\ Len(image_scales) >= 2
  /\ \E k \in Tasks :
       /\ IsMissing(k)
       /\ k < Len(history)
       /\ history[k + 1].i = history[k].i + 1

\* C2: after a task that ended in a transient failure (download-URL request,
\* download, re-encode, directory creation or move) at a scale that is not
\* the last one, the run goes on with the same name at the next scale.
C2_TransientFailureKeepsSiblings ==
  \A k \in Tasks :
    (IsTransient(k) /\ history[k].j < Len(image_scales)) =>
      IF k < Len(history)
      THEN history[k + 1].i = history[k].i /\ history[k + 1].j = history[k].j + 1
      ELSE pc = "loop" /\ i = history[k].i /\ j = history[k].j + 1

C2_Witness ==
  \E k \in Tasks :
    /\ IsTransient(k)
    /\ k < Len(history)
    /\ history[k + 1].i = history[k].i
    /\ Succeeded(k + 1)

\* C3: the first-scale tasks of a run are those of the requested names, in
\* the order of the list, whatever the outcomes of the earlier tasks; when the
\* run returns (with at least one scale to export) every name had its first task.
C3_FailuresDoNotAbortRun ==
  LET firsts == SelectSeq(history, LAMBDA t : t.j = 1)
  IN  /\ \A a \in 1..Len(firsts) :
           firsts[a].i = a /\ firsts[a].info.name = image_names[a]
      /\ (pc = "returned" /\ Loaded /\ Len(image_scales) > 0)
           => Len(firsts) = Len(image_names)

C3_Witness ==
  /\ pc = "returned"
  /\ \E k, l \in Tasks :
       /\ IsMissing(k) \/ IsTransient(k)
       /\ history[k].i < history[l].i
       /\ history[l].j = 1
       /\ Succeeded(l)

\* C4: with the SVG format every task has an empty scale label and factor 1,
\* the k-th task is the one of the k-th requested name, and the finished run
\* had exactly one task per requested name, whatever the configured scales.
C4_SvgOneTaskPerName ==
  (Loaded /\ is_svg(app_config.format)) =>
    /\ \A k \in Tasks :
         /\ history[k].info.scale_name = ""
         /\ history[k].info.scale_value = 1
         /\ history[k].i = k
         /\ history[k].info.name = image_names[k]
    /\ pc = "returned" => Len(history) = Len(image_names)

C4_Witness ==
  /\ pc = "returned"
  /\ Loaded
  /\ is_svg(app_config.format)
  /\ Len(app_config.scales) = 2
  /\ Len(history) = 2

\* C5: with a format other than SVG the tasks follow the plan (names in the
\* caller's order) x (configured scales in the map's order): each task carries
\* the name and the scale of its plan position, positions are visited in
\* increasing order, and when the run returns every plan position was either
\* attempted or skipped after a MissingAsset of the same name; a run with no
\* missing name has exactly |A| x |S| tasks.
C5_PlanIsNamesTimesScales ==
  (Loaded /\ ~is_svg(app_config.format)) =>
    LET S == app_config.scales
    IN  /\ \A k \in Tasks :
             /\ history[k].i \in 1..Len(image_names)
             /\ history[k].j \in 1..Len(S)
             /\ history[k].info.name = image_names[history[k].i]
             /\ history[k].info.scale_name = S[history[k].j][1]
             /\ history[k].info.scale_value = S[history[k].j][2]
        /\ \A k, l \in Tasks :
             k < l => \/ history[k].i < history[l].i
                      \/ history[k].i = history[l].i /\ history[k].j < history[l].j
        /\ pc = "returned" =>
             /\ \A a \in 1..Len(image_names), s \in 1..Len(S) :
                  \/ \E k \in Tasks : history[k].i = a /\ history[k].j = s
                  \/ \E k \in Tasks : history[k].i = a /\ history[k].j < s /\ IsMissing(k)
             /\ (\A k \in Tasks : ~IsMissing(k))
                  => Len(history) = Len(image_names) * Len(S)

C5_Witness ==
  /\ pc = "returned"
  /\ Loaded
  /\ ~is_svg(app_config.format)
  /\ Len(app_config.scales) = 2
  /\ Len(history) = 4
  /\ \E k \in Tasks : IsTransient(k)

\* The stage events of a task that runs through every stage.
StageOrder(info) ==
  <<View("FetchingImage", info.name, info.scale_name),
    View("DownloadingImage", info.name, info.scale_name)>>
  \o (IF info.format = "Webp"
      THEN <<View("ConvertingToWebp", info.name, info.scale_name),
             View("ConvertedToWebp", info.name, info.scale_name)>>
      ELSE <<>>)
  \o <<View("ImageExported", info.name, info.scale_name)>>

\* The number of stage events a task with this outcome has rendered.
StagesReached(info, outcome) ==
  CASE outcome = "Ok" -> Len(StageOrder(info))
    [] outcome = "ImageMissingInFrame" -> 0
    [] outcome = "GetImageDownloadUrl" -> 1
    [] outcome = "GetImage" -> 2
    [] outcome = "ImageToWebp" -> 3
    [] OTHER -> Len(StageOrder(info)) - 1

\* C6: the stage events of a task are a prefix of FetchingImage,
\* DownloadingImage, (Webp only) ConvertingToWebp, ConvertedToWebp,
\* ImageExported, and the prefix ends at the stage that failed: nothing of a
\* later stage is rendered after a failure, ImageExported only on success.
C6_EventsFollowStageOrder ==
  \A k \in Tasks :
    LET ev == StageEvents(k)
        full == StageOrder(history[k].info)
    IN  /\ Len(ev) <= Len(full)
        /\ ev = SubSeq(full, 1, Len(ev))
        /\ Len(ev) = StagesReached(history[k].info, Outcome(k))

C6_Witness ==
  /\ \E k \in Tasks : Outcome(k) = "ImageToWebp"
  /\ \E k \in Tasks : Succeeded(k) /\ history[k].info.format = "Webp"

\* C7: while the fetch phase has not succeeded no task exists, the name index
\* is empty, no directory or file is created; when it failed the run has
\* returned after rendering exactly one event, an Error.
C7_FetchFailureAbortsRun ==
  ~Loaded =>
    /\ pc \in {"fetch", "returned"}
    /\ history = <<>>
    /\ names_to_ids = NoIndex
    /\ dirs = {}
    /\ files = {}
    /\ pc = "fetch" => events = <<>>
    /\ pc = "returned" => Len(events) = 1 /\ events[1].view = "Error"

C7_Witness ==
  /\ ~Loaded
  /\ pc = "returned"
  /\ Len(image_names) = MaxNames

\* C8: a finished task rendered exactly one error event when it failed
\* (ErrorWithSuggestions for a missing name with suggestions, Error
\* otherwise) and none when it succeeded; no error event lies outside the
\* tasks' events.
C8_EveryFailureReportedOnce ==
  Loaded =>
    /\ \A k \in Tasks :
         LET er == ErrorEvents(k)
         IN  IF Succeeded(k) THEN er = <<>>
             ELSE /\ Len(er) = 1
                  /\ IsTransient(k) =>
                       /\ er[1].view = "Error"
                       /\ er[1].a[1] = Outcome(k)
                  /\ IsMissing(k) =>
                       /\ er[1].a = MissingText(history[k].info.name, app_config.frame)
                       /\ er[1].view = "ErrorWithSuggestions" <=> er[1].b # <<>>
    /\ Len(SelectSeq(events, LAMBDA e : e.view \in ErrorViews))
         = Cardinality({k \in Tasks : ~Succeeded(k)})

C8_Witness ==
  /\ \E k \in Tasks : IsTransient(k)
  /\ \E k \in Tasks : IsMissing(k)
                      /\ ErrorEvents(k)[1].view = "ErrorWithSuggestions"

C10_NoTwoTasksSamePath ==
  \A k, l \in Tasks :
    (k < l /\ Succeeded(k) /\ Succeeded(l)) => ExportPath(k) # ExportPath(l)

\* C10 as amended: two distinct tasks of a run have the same destination path
\* exactly when their names have the same resource name and their scale
\* labels are equal; the output tree holds one file per destination path of
\* the successful tasks.
C10_SamePathIffSameResNameAndScale ==
  Loaded =>
    /\ \A k, l \in Tasks :
         k < l =>
           ((ExportPath(k) = ExportPath(l))
              <=> /\ history[k].info.res_name = history[l].info.res_name
                  /\ history[k].info.scale_name = history[l].info.scale_name)
    /\ \A k \in Tasks :
         Succeeded(k) => \E f \in files : f.path = ExportPath(k)
    /\ \A f, g \in files : f.path = g.path => f = g

C10_Witness ==
  /\ Cardinality(files) = 2
  /\ \E k, l \in Tasks :
       /\ k # l
       /\ Succeeded(k)
       /\ Succeeded(l)
       /\ history[k].info.name # history[l].info.name
       /\ ExportPath(k) = ExportPath(l)
  /\ \E k, l \in Tasks :
       /\ Succeeded(k)
       /\ Succeeded(l)
       /\ history[k].info.res_name = history[l].info.res_name
       /\ ExportPath(k) # ExportPath(l)

\* The calls task k made, in order.
TaskCalls(k) == SelectSeq(calls, LAMBDA c : c.task = k)
CallsOf(k, op) == SelectSeq(calls, LAMBDA c : c.task = k /\ c.op = op)

\* The place of each collaborator in export_image (lines 104-139).
CallRank(op) ==
  CASE op = "get_image_download_url" -> 1
    [] op = "get_image" -> 2
    [] op = "image_to_webp" -> 3
    [] op = "create_dir" -> 4
    [] op = "move_file" -> 5

\* C11: a run attempts each (name occurrence, scale) position at most once,
\* going forward through the plan, and within a task each collaborator
\* (download-URL request, download, re-encode, directory creation, move) is
\* called at most once: the calls of a run are strictly increasing in (task,
\* collaborator), and a call that failed is the last call of its task.
C11_NoRetry ==
  /\ \A k \in Tasks :
       k > 1 =>
         \/ history[k - 1].i < history[k].i
         \/ history[k - 1].i = history[k].i /\ history[k - 1].j < history[k].j
  /\ \A c \in 1..Len(calls) :
       /\ calls[c].task \in Tasks
       /\ ~calls[c].ok => IsTransient(calls[c].task)
       /\ c < Len(calls) =>
            \/ calls[c].task < calls[c + 1].task
            \/ /\ calls[c].task = calls[c + 1].task
               /\ calls[c].ok
               /\ CallRank(calls[c].op) < CallRank(calls[c + 1].op)

C11_Witness ==
  \E c \in 1..Len(calls) :
    /\ ~calls[c].ok
    /\ calls[c].op = "get_image"
    /\ c < Len(calls)
    /\ pc = "returned"

\* C12: when the command is run again with the same names, configuration and
\* document after a run in which every call succeeded, and every call succeeds
\* again, the output tree holds the same paths with the same contents as after
\* the first run, each file written anew by the second run.
C12_RerunIsIdempotent ==
  (runs = 1 /\ pc = "returned") =>
    /\ {<<f.path, f.content>> : f \in files}
         = {<<f.path, f.content>> : f \in prev_files}
    /\ \A f \in files : f.run = 2
    /\ \A k \in Tasks : Succeeded(k) \/ IsMissing(k)

C12_Witness ==
  /\ runs = 1
  /\ pc = "returned"
  /\ Cardinality(prev_files) = 2
  /\ \E k \in Tasks : IsMissing(k)

\* What C13 says of task k: the re-encoder was called exactly when the format
\* is Webp and the download succeeded, with the downloaded file and the
\* configured quality, after ConvertingToWebp; ConvertedToWebp exactly when it
\* returned Ok; no ImageExported when it failed; the file placed is the
\* re-encoded one for Webp and the downloaded one otherwise.
ReencodeIffWebp(k) ==
  LET info == history[k].info
      webp == info.format = "Webp"
      conv == CallsOf(k, "image_to_webp")
      views == {TaskEvents(k)[n].view : n \in 1..Len(TaskEvents(k))}
      downloaded == <<"tmp", info.res_name, info.scale_name,
                      extension(info.format)>>
  IN  /\ Len(conv) = (IF webp /\ Stage(Outcome(k)) >= 3 THEN 1 ELSE 0)
      /\ ("ConvertingToWebp" \in views) <=> (Len(conv) = 1)
      /\ ("ConvertedToWebp" \in views) <=> (Len(conv) = 1 /\ conv[1].ok)
      /\ Len(conv) = 1 => conv[1].args = <<downloaded, app_config.quality>>
      /\ Outcome(k) = "ImageToWebp" =>
           /\ webp
           /\ ~conv[1].ok
           /\ "ImageExported" \notin views
      /\ Succeeded(k) =>
           \E f \in files :
             /\ f.path = ExportPath(k)
             /\ f.run = runs + 1
             /\ f.content =
                  downloaded
                    \o (IF webp THEN <<"webp", app_config.quality>> ELSE <<>>)

\* C13: the re-encode stage of a task runs if and only if the target format
\* is Webp: for Webp the task renders ConvertingToWebp, calls the re-encoder
\* with the configured quality and places the re-encoded file, a re-encode
\* failure giving neither ConvertedToWebp nor ImageExported; for every other
\* format no conversion view is rendered and the downloaded temporary file is
\* the one placed.
C13_ReencodeIffWebp ==
  [][Len(history') = Len(history) + 1 => ReencodeIffWebp(Len(history))']_vars

C13_Witness ==
  /\ Loaded
  /\ app_config.format = "Webp"
  /\ \E k \in Tasks : Outcome(k) = "ImageToWebp"
  /\ \E k \in Tasks : Succeeded(k)

\* The events of task k name that task only: every stage event carries its
\* asset name and scale label, its outcome event (if any) carries its error
\* and follows its stage events, and a line break ends the stretch.
OwnEvents(k) ==
  LET seg == TaskEvents(k)
      info == history[k].info
  IN  /\ seg # <<>>
      /\ seg[Len(seg)] = NewLine
      /\ \A n \in 1..Len(seg) :
           /\ seg[n].view \in StageViews \cup ErrorViews \cup {"NewLine"}
           /\ seg[n].view \in StageViews =>
                /\ seg[n].a = info.name
                /\ seg[n].b = info.scale_name
                /\ \A m \in 1..(n - 1) : seg[m].view \in StageViews
           /\ seg[n].view \in ErrorViews =>
                /\ ~Succeeded(k)
                /\ seg[n].a[1] = Outcome(k)
                /\ n = Len(seg) - 1

\* C14: tasks run one at a time in the order of the plan: a step of the run
\* either runs one whole task, appending to the stream a stretch of events
\* all of that task, which starts where the stretch of the previous task
\* ended, or appends no task event at all (the final Done, the error of a
\* failed fetch); so the events of two tasks never interleave.
C14_TaskEventsContiguous ==
  [][ \/ /\ Len(history') = Len(history) + 1
         /\ SubSeq(history', 1, Len(history)) = history
         /\ SubSeq(events', 1, Len(events)) = events
         /\ history'[Len(history')].from = Len(events)
         /\ history'[Len(history')].to = Len(events')
         /\ Len(history) > 0 =>
              /\ history[Len(history)].to = Len(events)
              /\ \/ history[Len(history)].i < history'[Len(history')].i
                 \/ /\ history[Len(history)].i = history'[Len(history')].i
                    /\ history[Len(history)].j < history'[Len(history')].j
         /\ OwnEvents(Len(history))'
      \/ /\ history' = history
         /\ pc' = "returned"
         /\ Len(events') = Len(events) + 1
         /\ SubSeq(events', 1, Len(events)) = events
         /\ IF pc = "fetch"
            THEN events'[Len(events')].view = "Error"
            ELSE events'[Len(events')] = View("Done", "", "")
      \/ /\ history' = history
         /\ events' = events
      \/ /\ runs' = runs + 1
         /\ history' = <<>>
         /\ events' = <<>>
    ]_vars

C14_Witness ==
  /\ Loaded
  /\ pc = "returned"
  /\ Len(history) >= 3
  /\ \E k \in Tasks : IsTransient(k) /\ k < Len(history)
  /\ \E k \in Tasks : Succeeded(k) /\ history[k].info # history[Len(history)].info

\* C15: a step of the run never removes a file of the output tree, and it
\* changes a file only when the task of that step succeeded and placed its
\* own file at that very path; a task that ends in MissingAsset or in a
\* TransientFailure of any stage leaves every file as it was.
C15_NoRollback ==
  [][ /\ \A f \in files :
           \E g \in files' :
             /\ g.path = f.path
             /\ g = f \/ /\ Len(history') = Len(history) + 1
                         /\ export_result'.kind = "Ok"
                         /\ ExpectedPath(image_info') = f.path
      /\ (Len(history') = Len(history) + 1 /\ export_result'.kind # "Ok")
           => files' = files
    ]_vars

C15_Witness ==
  /\ Loaded
  /\ \E k, l \in Tasks :
       /\ k < l
       /\ Succeeded(k)
       /\ Outcome(l) = "CannotMoveToDrawableDir"
       /\ ExportPath(k) = ExportPath(l)
       /\ \E f \in files : f.path = ExportPath(k) /\ f.run = runs + 1

\* C16: once the run has the name index, no step adds, removes or changes an
\* entry of names_to_ids, whatever the outcome of the task; so every task of a
\* name in the index asked the download URL of the same node id, and every
\* task of a name outside it ended in MissingAsset.
C16_NameIndexReadOnly ==
  [][ /\ pc # "fetch" => names_to_ids' = names_to_ids
      /\ \A c \in 1..Len(calls') :
           calls'[c].op = "get_image_download_url" =>
             /\ history'[calls'[c].task].info.name \in DOMAIN names_to_ids'
             /\ calls'[c].args[1]
                  = names_to_ids'[history'[calls'[c].task].info.name]
      /\ \A k \in 1..Len(history') :
           (history'[k].outcome = "ImageMissingInFrame")
             <=> (history'[k].info.name \notin DOMAIN names_to_ids')
    ]_vars

C16_Witness ==
  /\ pc = "returned"
  /\ \E k, l \in Tasks :
       /\ k < l
       /\ history[k].i = history[l].i
       /\ Succeeded(k)
       /\ IsTransient(l)
  /\ \E k \in Tasks :
       /\ IsMissing(k)
       /\ export_result.kind = "ImageMissingInFrame"
       /\ export_result.suggestions.some

\* C17: a task ends in MissingAsset exactly when its name is not in the
\* index, and only at the first scale of a name occurrence; the step of such a
\* task appends exactly one missing-asset event (ErrorWithSuggestions when
\* there are suggestions, Error otherwise) and a line break, renders no stage
\* event, calls no collaborator, and leaves the directories and the files as
\* they were.
C17_MissingBeforeAnySideEffect ==
  [][ Len(history') = Len(history) + 1 =>
        LET t == history'[Len(history')]
            r == export_result'
        IN  /\ (t.outcome = "ImageMissingInFrame")
                 <=> (t.info.name \notin DOMAIN names_to_ids)
            /\ t.outcome = "ImageMissingInFrame" =>
                 /\ t.j = 1
                 /\ events' = events \o
                      <<View((IF r.suggestions.some
                              THEN "ErrorWithSuggestions" ELSE "Error"),
                             <<"ImageMissingInFrame", t.info.name,
                               app_config.frame>>,
                             r.suggestions.list),
                        NewLine>>
                 /\ r.suggestions.some <=> r.suggestions.list # <<>>
                 /\ calls' = calls
                 /\ dirs' = dirs
                 /\ files' = files
    ]_vars

C17_Witness ==
  /\ Loaded
  /\ Len(image_scales) = 2
  /\ \E k \in Tasks :
       /\ IsMissing(k)
       /\ k > 1
       /\ TaskEvents(k)[1].view = "ErrorWithSuggestions"
       /\ files # {}
  /\ pc = "returned"

\* The places of the Done views in the events of the run.
Dones == {n \in 1..Len(events) : events[n].view = "Done"}

\* C18: every run returns, and when it returns after a successful fetch,
\* whatever the outcomes of its tasks, Done is its last event and occurs
\* nowhere else; when it returns after a failed fetch there is no Done.
C18_TerminatesWithOneDone ==
  <>(/\ pc = "returned"
     /\ Dones = (IF Loaded THEN {Len(events)} ELSE {}))

C18_Witness ==
  /\ pc = "returned"
  /\ Loaded
  /\ \E k \in Tasks : Succeeded(k)
  /\ \E k \in Tasks : IsTransient(k)
  /\ \E k \in Tasks : IsMissing(k)
  /\ events[Len(events)].view = "Done"

\* What C19 says of task k.
ExportedIffMoved(k) ==
  LET seg == TaskEvents(k)
      info == history[k].info
      cs == TaskCalls(k)
      exported == {n \in 1..Len(seg) : seg[n].view = "ImageExported"}
      moved == \E c \in 1..Len(cs) : cs[c].op = "move_file" /\ cs[c].ok
  IN  /\ (exported # {}) <=> moved
      /\ moved <=> Succeeded(k)
      /\ moved => \E f \in files : f.path = ExportPath(k) /\ f.run = runs + 1
      /\ Succeeded(k) =>
           /\ \A c \in 1..Len(cs) : cs[c].ok
           /\ {cs[c].op : c \in 1..Len(cs)}
                = {"get_image_download_url", "get_image", "create_dir",
                   "move_file"}
                  \cup (IF info.format = "Webp" THEN {"image_to_webp"} ELSE {})
           /\ cs[Len(cs)].args[2] = ExportPath(k)
           /\ exported = {Len(seg) - 1}
           /\ seg[Len(seg) - 1] = View("ImageExported", info.name, info.scale_name)
      /\ Outcome(k) = "CannotMoveToDrawableDir" =>
           /\ cs[Len(cs)].op = "move_file"
           /\ ~cs[Len(cs)].ok
           /\ seg[Len(seg) - 1]
                = View("Error", <<"CannotMoveToDrawableDir", info.name>>, <<>>)

\* C19: a task renders ImageExported exactly when its move_file call returned
\* Ok, which is exactly when it succeeded: then the download-URL request, the
\* download, the re-encode for Webp, create_dir and move_file were all called
\* and returned Ok, ImageExported names the task and is its last stage event;
\* a task whose move failed renders the CannotMoveToDrawableDir error and no
\* ImageExported.
C19_ExportedIffMoved ==
  [][Len(history') = Len(history) + 1 => ExportedIffMoved(Len(history))']_vars

C19_Witness ==
  /\ Loaded
  /\ \E k, l \in Tasks :
       /\ Outcome(k) = "CannotMoveToDrawableDir"
       /\ Succeeded(l)
       /\ history[k].i = history[l].i
       /\ files # {}
====
